---- MODULE Spec2Model ----
(***************************************************************************)
(* A model of src/app.py: the ImageProcessor class (load_sku_mapping,      *)
(* get_image_files_from_folder, process_folder_images, process_zip_images, *)
(* create_result_csv) and the processing branch of main().                 *)
(*                                                                         *)
(* Python strings are modelled as sequences of one-character strings, so   *)
(* that slicing, lower(), endswith(), splitext() and formatting are        *)
(* computed as the code computes them.                                     *)
(***************************************************************************)
EXTENDS Integers, Sequences, FiniteSets, TLC

VARIABLES
    csv_file,        \* the uploaded table (bytes abstracted to encoding, well-formedness, header, rows)
    source,          \* the image source: the entries of the folder tree / of the archive's namelist
    method,          \* "folders" or "zip"
    pc,              \* position of the run
    sku_mapping,     \* the mapping returned by load_sku_mapping
    image_files,     \* the list the processing loop iterates (image_files / filtered_files)
    idx,             \* number of loop iterations completed
    current_code,    \* current_code (None is <<"None">>)
    image_index,     \* image_index
    code_to_images,  \* code_to_images
    failed_items,    \* failed_items
    total_files,     \* total_files
    successful_files,\* successful_files
    outputs,         \* the names written so far to the destination folder / the output archive
    ret,             \* the tuple returned by process_folder_images / process_zip_images
    result_csv,      \* the value returned by create_result_csv
    results          \* st.session_state.results

vars == <<csv_file, source, method, pc, sku_mapping, image_files, idx, current_code,
          image_index, code_to_images, failed_items, total_files, successful_files,
          outputs, ret, result_csv, results>>

-----------------------------------------------------------------------------
(* Bounds of the model. *)

\* an image source is a concatenation of at most MaxBlocks blocks of like files
MaxBlocks == 3
\* a table has at most MaxRows rows
MaxRows == 2

-----------------------------------------------------------------------------
(* Strings. *)

Min(a, b) == IF a < b THEN a ELSE b

UpperChars == <<"A","B","C","D","E","F","G","H","I","J","K","L","M",
                "N","O","P","Q","R","S","T","U","V","W","X","Y","Z">>
LowerChars == <<"a","b","c","d","e","f","g","h","i","j","k","l","m",
                "n","o","p","q","r","s","t","u","v","w","x","y","z">>
DigitChars == <<"0","1","2","3","4","5","6","7","8","9">>

ToLower == [c \in {UpperChars[i] : i \in 1..26} |->
               LowerChars[CHOOSE i \in 1..26 : UpperChars[i] = c]]

LowerChar(c) == IF c \in DOMAIN ToLower THEN ToLower[c] ELSE c

\* str.lower()
Lower(s) == [i \in 1..Len(s) |-> LowerChar(s[i])]

\* str.endswith(suffix)
EndsWith(s, suffix) ==
    /\ Len(suffix) <= Len(s)
    /\ SubSeq(s, Len(s) - Len(suffix) + 1, Len(s)) = suffix

\* str.startswith(prefix)
StartsWith(s, prefix) ==
    /\ Len(prefix) <= Len(s)
    /\ SubSeq(s, 1, Len(prefix)) = prefix

\* str.rfind(c) + 1: the 1-based position of the last c in s, 0 when there is none
RFind(s, c) ==
    IF \E i \in 1..Len(s) : s[i] = c
    THEN CHOOSE i \in 1..Len(s) : s[i] = c /\ \A j \in (i+1)..Len(s) : s[j] # c
    ELSE 0

IsSpace(c) == c \in {" ", "\t"}

\* str.strip()
Strip(s) ==
    IF \A i \in 1..Len(s) : IsSpace(s[i])
    THEN << >>
    ELSE LET a == CHOOSE i \in 1..Len(s) : ~IsSpace(s[i]) /\ \A j \in 1..(i-1) : IsSpace(s[j])
             b == CHOOSE i \in 1..Len(s) : ~IsSpace(s[i]) /\ \A j \in (i+1)..Len(s) : IsSpace(s[j])
         IN  SubSeq(s, a, b)

\* s[:n]
Prefix(s, n) == SubSeq(s, 1, Min(n, Len(s)))

RECURSIVE Dec(_)
\* str(n) for n >= 0
Dec(n) == IF n < 10 THEN <<DigitChars[n + 1]>>
          ELSE Dec(n \div 10) \o <<DigitChars[(n % 10) + 1]>>

\* f"{n:02d}"
Fmt02d(n) == IF Len(Dec(n)) < 2 THEN <<"0">> \o Dec(n) ELSE Dec(n)

RECURSIVE Join(_, _)
\* sep.join(items)
Join(sep, items) ==
    IF Len(items) = 0 THEN << >>
    ELSE IF Len(items) = 1 THEN items[1]
    ELSE items[1] \o sep \o Join(sep, Tail(items))

-----------------------------------------------------------------------------
(* os.path *)

\* os.path.basename
Basename(p) == SubSeq(p, RFind(p, "/") + 1, Len(p))

RECURSIVE RStripSlash(_)
RStripSlash(s) == IF Len(s) > 0 /\ s[Len(s)] = "/" THEN RStripSlash(SubSeq(s, 1, Len(s) - 1)) ELSE s

\* os.path.dirname
Dirname(p) ==
    LET head == SubSeq(p, 1, RFind(p, "/"))
    IN  IF Len(head) > 0 /\ \E i \in 1..Len(head) : head[i] # "/"
        THEN RStripSlash(head)
        ELSE head

\* os.path.splitext: <<root, ext>>
SplitExt(p) ==
    LET sep == RFind(p, "/")
        dot == RFind(p, ".")
    IN  IF dot > sep /\ \E j \in (sep+1)..(dot-1) : p[j] # "."
        THEN <<SubSeq(p, 1, dot - 1), SubSeq(p, dot, Len(p))>>
        ELSE <<p, << >> >>

\* os.path.join(root, file)
PathJoin(root, file) == IF Len(root) > 0 /\ root[Len(root)] # "/" THEN root \o <<"/">> \o file ELSE root \o file

-----------------------------------------------------------------------------
(* ImageProcessor: constants *)

EXT_JPG  == <<".","j","p","g">>
EXT_JPEG == <<".","j","p","e","g">>
EXT_PNG  == <<".","p","n","g">>
EXT_BMP  == <<".","b","m","p">>
EXT_GIF  == <<".","g","i","f">>

\* self.valid_extensions
valid_extensions == {EXT_JPG, EXT_JPEG, EXT_PNG, EXT_BMP, EXT_GIF}

\* the cap of images taken per folder
MaxPerFolder == 6
\* the largest sequence number before the counter wraps
MaxIndex == 6
\* the length of the code prefix of a file name
CodeLen == 5

\* is_image_file
is_image_file(filename) == \E e \in valid_extensions : EndsWith(Lower(filename), e)

-----------------------------------------------------------------------------
(* The uploaded table.  A file is abstracted to the encoding its bytes were *)
(* written in, whether it is well-formed delimited text, its header and its *)
(* rows.  A cell is a string; pandas reads an empty field as NaN.           *)

\* the column 'CÓDIGO' (written without the accent here) and the column 'SKU'
COL_CODIGO == "CODIGO"
COL_SKU == "SKU"
\* 'CÓDIGO' as it reads when UTF-8 bytes are decoded as Latin-1 or CP1252
COL_CODIGO_MOJIBAKE == "CA_DIGO"
COL_OTHER == "NOME"

\* the fallback list of load_sku_mapping
encodings == <<"utf-8", "latin1", "cp1252">>

\* pandas' missing value: what read_csv makes of an empty field
IsNa(v) == v = << >>

\* the header holds a character outside ASCII exactly when it names 'CÓDIGO'
HasNonAscii(file) == COL_CODIGO \in file.header

\* whether the bytes of the file decode under the codec
DecodeOK(file, encoding) ==
    CASE encoding = "utf-8"  -> file.enc = "utf-8" \/ ~HasNonAscii(file)
      [] encoding = "latin1" -> TRUE
      [] encoding = "cp1252" -> TRUE

\* the column names seen when the file is decoded under the codec
ColumnsUnder(file, encoding) ==
    IF file.enc = "utf-8" /\ encoding # "utf-8" /\ COL_CODIGO \in file.header
    THEN (file.header \ {COL_CODIGO}) \cup {COL_CODIGO_MOJIBAKE}
    ELSE file.header

\* pd.read_csv(csv_file, encoding=encoding): raises (ok = FALSE) or gives a frame
read_csv(file, encoding) ==
    IF file.wellformed /\ DecodeOK(file, encoding)
    THEN [ok |-> TRUE, columns |-> ColumnsUnder(file, encoding), rows |-> file.rows]
    ELSE [ok |-> FALSE, columns |-> {}, rows |-> << >>]

\* df.dropna(subset=['CÓDIGO', 'SKU'])
DropNa(rows) == SelectSeq(rows, LAMBDA r : ~IsNa(r.codigo) /\ ~IsNa(r.sku))

\* astype(str): a missing value becomes the text 'nan'
AsStr(v) == IF IsNa(v) THEN <<"n","a","n">> ELSE v

\* a to_dict() in which the first row with a key would win
BuildMappingFirstWins(rows) ==
    LET kept == SelectSeq(rows, LAMBDA r : ~IsNa(r.codigo) /\ ~IsNa(r.sku))
        keys == {Strip(kept[i].codigo) : i \in 1..Len(kept)}
        first(k) == CHOOSE i \in 1..Len(kept) :
                       /\ Strip(kept[i].codigo) = k
                       /\ \A j \in 1..(i-1) : Strip(kept[j].codigo) # k
    IN  [k \in keys |-> Strip(kept[first(k)].sku)]

\* df.set_index('CÓDIGO')['SKU'].to_dict() after both columns are stripped:
\* a later row replaces an earlier one with the same key
BuildMapping(rows) ==
    LET kept == DropNa(rows)
        keys == {Strip(AsStr(kept[i].codigo)) : i \in 1..Len(kept)}
        last(k) == CHOOSE i \in 1..Len(kept) :
                      /\ Strip(AsStr(kept[i].codigo)) = k
                      /\ \A j \in (i+1)..Len(kept) : Strip(AsStr(kept[j].codigo)) # k
    IN  [k \in keys |-> Strip(AsStr(kept[last(k)].sku))]

EmptyMapping == [k \in {} |-> << >>]

\* a loader that gives up after the first encoding that fails to parse
LoadFromNoFallback(file, k) ==
    LET df == read_csv(file, encodings[k])
    IN  IF ~df.ok THEN EmptyMapping
        ELSE IF COL_CODIGO \notin df.columns \/ COL_SKU \notin df.columns
             THEN EmptyMapping
             ELSE BuildMapping(df.rows)

RECURSIVE LoadFrom(_, _)
\* the loop of load_sku_mapping from the k-th encoding on
LoadFrom(file, k) ==
    IF k > Len(encodings) THEN EmptyMapping
    ELSE LET df == read_csv(file, encodings[k])
         IN  IF ~df.ok THEN LoadFrom(file, k + 1)
             ELSE IF COL_CODIGO \notin df.columns \/ COL_SKU \notin df.columns
                  THEN EmptyMapping
                  ELSE BuildMapping(df.rows)

\* load_sku_mapping(csv_file)
load_sku_mapping(file) == LoadFrom(file, 1)

\* the lambda of create_result_csv
ImagesCell(x, grouping) ==
    IF Prefix(x, CodeLen) \in DOMAIN grouping
    THEN Join(<<",", " ">>, grouping[Prefix(x, CodeLen)])
    ELSE << >>

\* b"": what create_result_csv returns when anything raises
EmptyBytes == [ok |-> FALSE, rows |-> << >>]

\* create_result_csv(original_csv, code_to_images)
create_result_csv(file, grouping) ==
    LET df == read_csv(file, "utf-8")
    IN  IF ~df.ok \/ COL_CODIGO \notin df.columns THEN EmptyBytes
        ELSE [ok |-> TRUE,
              rows |-> [i \in 1..Len(df.rows) |->
                          LET x == Strip(AsStr(df.rows[i].codigo))
                          IN  [codigo |-> x, sku |-> df.rows[i].sku,
                               imagens |-> ImagesCell(x, grouping)]]]

\* csv_valid as main computes it from its own preview read
csv_valid(file) ==
    LET df == read_csv(file, "utf-8")
    IN  /\ df.ok
        /\ COL_CODIGO \in df.columns
        /\ COL_SKU \in df.columns
        /\ ~(\A i \in 1..Len(df.rows) : IsNa(df.rows[i].codigo))

-----------------------------------------------------------------------------
(* The image source.  An entry is a file of the folder tree or a member of *)
(* the archive: its path relative to the source and whether its bytes fail *)
(* to decode as an image.                                                  *)

STR_AAA11 == <<"A","A","A","1","1">>
STR_BBB22 == <<"B","B","B","2","2">>
STR_XYZ99 == <<"X","Y","Z","9","9">>
STR_NOTES == <<"n","o","t","e","s">>
STR_SUB   == <<"s","u","b","/">>
STR_SKU100 == <<"S","K","U","1","0","0">>
STR_SKU200 == <<"S","K","U","2","0","0">>

\* the prefix process_zip_images tests entries against
MACOSX == <<"_","_","M","A","C","O","S","X","/">>

KIND_A_JPG     == [dir |-> << >>,   stem |-> STR_AAA11, ext |-> EXT_JPG,             corrupt |-> FALSE]
KIND_A_PNG_SUB == [dir |-> STR_SUB, stem |-> STR_AAA11, ext |-> <<".","P","N","G">>, corrupt |-> FALSE]
KIND_B_JPG     == [dir |-> << >>,   stem |-> STR_BBB22, ext |-> EXT_JPG,             corrupt |-> FALSE]
KIND_B_JPEG_SUB == [dir |-> STR_SUB, stem |-> STR_BBB22, ext |-> <<".","J","P","E","G">>, corrupt |-> FALSE]
KIND_X_JPG     == [dir |-> << >>,   stem |-> STR_XYZ99, ext |-> EXT_JPG,             corrupt |-> FALSE]
KIND_A_BAD_SUB == [dir |-> STR_SUB, stem |-> STR_AAA11, ext |-> EXT_JPG,             corrupt |-> TRUE]
KIND_NOTES     == [dir |-> << >>,   stem |-> STR_NOTES, ext |-> <<".","t","x","t">>, corrupt |-> FALSE]
\* images in a macOS metadata folder, at the top of an archive and under a folder
KIND_MAC_TOP   == [dir |-> MACOSX,  stem |-> STR_AAA11, ext |-> EXT_JPG,             corrupt |-> FALSE]
KIND_MAC_SUB   == [dir |-> STR_SUB \o MACOSX, stem |-> STR_AAA11, ext |-> EXT_JPG,  corrupt |-> FALSE]

\* the kinds of file a source is made of
FileKinds == {KIND_A_JPG, KIND_A_PNG_SUB, KIND_B_JPG, KIND_B_JPEG_SUB, KIND_X_JPG, KIND_A_BAD_SUB,
              KIND_NOTES}

\* a block <<kind, n>> is one file, or one file more than a folder may contribute
Blocks == (FileKinds \X {1}) \cup ({KIND_A_JPG, KIND_A_PNG_SUB} \X {MaxPerFolder + 1})

RECURSIVE Expand(_)
\* the kinds of a sequence of blocks <<kind, n>>, one per file
Expand(blocks) ==
    IF blocks = << >> THEN << >>
    ELSE [i \in 1..blocks[1][2] |-> blocks[1][1]] \o Expand(Tail(blocks))

\* the files: the k-th file of a stem is named <stem>_<k><ext>
EntriesOf(kinds) ==
    [i \in 1..Len(kinds) |->
        [path |-> kinds[i].dir \o kinds[i].stem \o <<"_">>
                    \o Dec(Cardinality({j \in 1..i : kinds[j].stem = kinds[i].stem}))
                    \o kinds[i].ext,
         corrupt |-> kinds[i].corrupt]]

BlockSeqs(n) == UNION {[1..m -> Blocks] : m \in 0..n}

Sources(n) == {EntriesOf(Expand(b)) : b \in BlockSeqs(n)}

\* the kinds of member an archive packed on macOS is made of
ArchiveKinds == {KIND_A_JPG, KIND_A_PNG_SUB, KIND_MAC_TOP, KIND_MAC_SUB}

ArchiveBlocks == (ArchiveKinds \X {1}) \cup ({KIND_A_JPG, KIND_MAC_SUB} \X {MaxPerFolder + 1})

Archives(n) ==
    {EntriesOf(Expand(b)) : b \in UNION {[1..m -> ArchiveBlocks] : m \in 0..n}}

\* the folder the user names as source_folder
SOURCE_FOLDER == <<"i","n">>

\* the path under which the loop sees an entry
FullPath(m, entry) == IF m = "folders" THEN PathJoin(SOURCE_FOLDER, entry.path) ELSE entry.path

\* Image.open / img.save raise on this path
ReadFails(m, src, path) == \E i \in 1..Len(src) : FullPath(m, src[i]) = path /\ src[i].corrupt

RECURSIVE DistinctDirs(_, _)
\* the sub-folders of the tree in the order the walk meets them
DistinctDirs(src, seen) ==
    IF src = << >> THEN << >>
    ELSE LET d == Dirname(src[1].path)
         IN  IF d = << >> \/ d \in seen THEN DistinctDirs(Tail(src), seen)
             ELSE <<d>> \o DistinctDirs(Tail(src), seen \cup {d})

\* os.walk(folder_path), top-down: <<root, files>> for the folder and each sub-folder
Walk(src) ==
    LET dirs == << << >> >> \o DistinctDirs(src, {})
        inDir(d) == SelectSeq(src, LAMBDA e : Dirname(e.path) = d)
    IN  [k \in 1..Len(dirs) |->
            [root  |-> IF dirs[k] = << >> THEN SOURCE_FOLDER ELSE PathJoin(SOURCE_FOLDER, dirs[k]),
             files |-> [i \in 1..Len(inDir(dirs[k])) |-> Basename(inDir(dirs[k])[i].path)]]]

RECURSIVE FolderImages(_, _, _)
\* the inner loop of get_image_files_from_folder over one folder's files
FolderImages(root, files, image_count) ==
    IF files = << >> THEN << >>
    ELSE IF is_image_file(files[1])
         THEN <<PathJoin(root, files[1])>>
              \o (IF image_count + 1 >= MaxPerFolder THEN << >>
                  ELSE FolderImages(root, Tail(files), image_count + 1))
         ELSE FolderImages(root, Tail(files), image_count)

RECURSIVE WalkImages(_)
WalkImages(tree) ==
    IF tree = << >> THEN << >>
    ELSE FolderImages(tree[1].root, tree[1].files, 0) \o WalkImages(Tail(tree))

\* get_image_files_from_folder(folder_path)
get_image_files_from_folder(src) == WalkImages(Walk(src))

\* an image_files that keeps the metadata entries
ZipImageFilesWithMetadata(src) ==
    SelectSeq([i \in 1..Len(src) |-> src[i].path], LAMBDA f : is_image_file(f))

\* image_files of process_zip_images: the namelist, images only, metadata excluded
ZipImageFiles(src) ==
    SelectSeq([i \in 1..Len(src) |-> src[i].path],
              LAMBDA f : is_image_file(f) /\ ~StartsWith(f, MACOSX))

\* a folder filter that keeps everything
FilterByFolderUncapped(files, folder_counts) == files

RECURSIVE FilterByFolder(_, _)
\* filtered_files of process_zip_images; folder_counts maps a folder to its count so far
FilterByFolder(files, folder_counts) ==
    IF files = << >> THEN << >>
    ELSE LET folder == Dirname(files[1])
             n == IF folder \in DOMAIN folder_counts THEN folder_counts[folder] ELSE 0
         IN  IF n < MaxPerFolder
             THEN <<files[1]>> \o FilterByFolder(Tail(files), (folder :> n + 1) @@ folder_counts)
             ELSE FilterByFolder(Tail(files), (folder :> n) @@ folder_counts)

-----------------------------------------------------------------------------
(* The processing loop, the same in process_folder_images and in           *)
(* process_zip_images but for where the bytes are written.                 *)

None == <<"None">>
EmptyGrouping == [k \in {} |-> << >>]

\* the folder the user names as destination_folder
DESTINATION_FOLDER == <<"o","u","t">>

\* name[:5]
CodeOf(name) == Prefix(name, CodeLen)

\* a counter that is never reset on a change of code
IndexForNoReset(cur, code, index) == index

\* if current_code != code: image_index = 1
IndexFor(cur, code, index) == IF cur # code THEN 1 ELSE index

\* an extension that is kept whatever it is
SavedExtKept(ext) == ext

\* the extension the image is saved under: anything but .jpg/.jpeg is converted
SavedExt(ext) == IF ext \notin {EXT_JPG, EXT_JPEG} THEN EXT_JPG ELSE ext

\* f"{sku}_{code}_{image_index:02d}{ext}"
NewFilename(sku, code, index, ext) ==
    sku \o <<"_">> \o code \o <<"_">> \o Fmt02d(index) \o ext

\* where the bytes go: destination_path in a folder run, the member name in an archive run
WrittenAs(m, new_filename) ==
    IF m = "folders" THEN PathJoin(DESTINATION_FOLDER, new_filename) ELSE new_filename

\* a grouping that would not hold the same name twice
AddToGroupingOnce(grouping, code, new_filename) ==
    IF code \in DOMAIN grouping
    THEN IF \E i \in 1..Len(grouping[code]) : grouping[code][i] = new_filename
         THEN grouping
         ELSE [grouping EXCEPT ![code] = Append(@, new_filename)]
    ELSE (code :> <<new_filename>>) @@ grouping

\* code_to_images[code].append(new_filename), or a new list
AddToGrouping(grouping, code, new_filename) ==
    IF code \in DOMAIN grouping
    THEN [grouping EXCEPT ![code] = Append(@, new_filename)]
    ELSE (code :> <<new_filename>>) @@ grouping

\* a counter that never wraps
NextIndexNoWrap(index) == index + 1

\* image_index += 1; if image_index > 6: image_index = 1
NextIndex(index) == IF index + 1 > MaxIndex THEN 1 ELSE index + 1

\* an else branch that records nothing
OnUnmappedSilent(failed, filename) == failed

\* the else branch: the code is not in the mapping
OnUnmapped(failed, filename) == Append(failed, filename)

\* an except branch that records nothing
OnExceptionSilent(failed, filename) == failed

\* the except branch of the loop
OnException(failed, filename) == Append(failed, filename)

\* one iteration of the loop over image_files[idx + 1]
LoopBody(path) ==
    LET filename == Basename(path)
        name     == SplitExt(filename)[1]
        ext      == Lower(SplitExt(filename)[2])
        code     == CodeOf(name)
        index    == IndexFor(current_code, code, image_index)
    IN  /\ idx' = idx + 1
        /\ current_code' = code
        /\ IF code \in DOMAIN sku_mapping
           THEN LET new_filename == NewFilename(sku_mapping[code], code, index, SavedExt(ext))
                IN  IF ReadFails(method, source, path)
                    THEN /\ failed_items' = OnException(failed_items, filename)
                         /\ image_index' = index
                         /\ UNCHANGED <<code_to_images, successful_files, outputs>>
                    ELSE /\ outputs' = Append(outputs, WrittenAs(method, new_filename))
                         /\ code_to_images' = AddToGrouping(code_to_images, code, new_filename)
                         /\ image_index' = NextIndex(index)
                         /\ successful_files' = successful_files + 1
                         /\ UNCHANGED failed_items
           ELSE /\ failed_items' = OnUnmapped(failed_items, filename)
                /\ image_index' = index
                /\ UNCHANGED <<code_to_images, successful_files, outputs>>
        /\ UNCHANGED <<csv_file, source, method, pc, sku_mapping, image_files, total_files,
                       ret, result_csv, results>>

NoReturn == [set |-> FALSE, code_to_images |-> EmptyGrouping, total_files |-> 0,
             failures |-> 0, failed_items |-> << >>, processed_zip |-> << >>]

\* return code_to_images, 0, 0, []
EarlyReturn == [NoReturn EXCEPT !.set = TRUE]

\* total_files of the archive run: counted before the per-folder filter
ZipTotal(src) == Len(ZipImageFiles(src))

\* the locals both methods start from
FreshLocals ==
    /\ code_to_images' = EmptyGrouping
    /\ current_code' = None
    /\ image_index' = 1
    /\ failed_items' = << >>
    /\ successful_files' = 0
    /\ idx' = 0
    /\ outputs' = << >>

\* process_folder_images up to its loop, called with mapping m
BeginFolderWith(m) ==
    /\ sku_mapping' = m
    /\ FreshLocals
    /\ \E dest_ok \in BOOLEAN :
          IF ~dest_ok
          THEN /\ image_files' = << >>
               /\ total_files' = 0
               /\ ret' = EarlyReturn
               /\ pc' = "returned"
          ELSE /\ image_files' = get_image_files_from_folder(source)
               /\ total_files' = Len(get_image_files_from_folder(source))
               /\ IF get_image_files_from_folder(source) = << >>
                  THEN ret' = EarlyReturn /\ pc' = "returned"
                  ELSE ret' = NoReturn /\ pc' = "loop"

\* process_zip_images up to its loop, called with mapping m
BeginZipWith(m) ==
    /\ sku_mapping' = m
    /\ FreshLocals
    /\ \E readable \in BOOLEAN :
          IF ~readable
          THEN /\ image_files' = << >>
               /\ total_files' = 0
               /\ ret' = EarlyReturn
               /\ pc' = "returned"
          ELSE /\ image_files' = FilterByFolder(ZipImageFiles(source), EmptyGrouping)
               /\ total_files' = ZipTotal(source)
               /\ ret' = NoReturn
               /\ pc' = "loop"

-----------------------------------------------------------------------------
(* The methods of ImageProcessor, called in the order main calls them.     *)

LoadSkuMapping ==
    /\ pc = "init"
    /\ sku_mapping' = load_sku_mapping(csv_file)
    /\ pc' = "loaded"
    /\ UNCHANGED <<csv_file, source, method, image_files, idx, current_code, image_index,
                   code_to_images, failed_items, total_files, successful_files, outputs,
                   ret, result_csv, results>>

ProcessFolderBegin ==
    /\ pc = "loaded"
    /\ method = "folders"
    /\ BeginFolderWith(sku_mapping)
    /\ UNCHANGED <<csv_file, source, method, result_csv, results>>

ProcessZipBegin ==
    /\ pc = "loaded"
    /\ method = "zip"
    /\ BeginZipWith(sku_mapping)
    /\ UNCHANGED <<csv_file, source, method, result_csv, results>>

ProcessFolderStep ==
    /\ pc = "loop"
    /\ method = "folders"
    /\ idx < Len(image_files)
    /\ LoopBody(image_files[idx + 1])

ProcessZipStep ==
    /\ pc = "loop"
    /\ method = "zip"
    /\ idx < Len(image_files)
    /\ LoopBody(image_files[idx + 1])

\* return code_to_images, total_files, len(failed_items), failed_items
ProcessFolderReturn ==
    /\ pc = "loop"
    /\ method = "folders"
    /\ idx = Len(image_files)
    /\ ret' = [set |-> TRUE, code_to_images |-> code_to_images, total_files |-> total_files,
               failures |-> Len(failed_items), failed_items |-> failed_items,
               processed_zip |-> << >>]
    /\ pc' = "returned"
    /\ UNCHANGED <<csv_file, source, method, sku_mapping, image_files, idx, current_code,
                   image_index, code_to_images, failed_items, total_files, successful_files,
                   outputs, result_csv, results>>

\* return code_to_images, total_files, len(failed_items), failed_items, output_zip.getvalue()
ProcessZipReturn ==
    /\ pc = "loop"
    /\ method = "zip"
    /\ idx = Len(image_files)
    /\ ret' = [set |-> TRUE, code_to_images |-> code_to_images, total_files |-> total_files,
               failures |-> Len(failed_items), failed_items |-> failed_items,
               processed_zip |-> outputs]
    /\ pc' = "returned"
    /\ UNCHANGED <<csv_file, source, method, sku_mapping, image_files, idx, current_code,
                   image_index, code_to_images, failed_items, total_files, successful_files,
                   outputs, result_csv, results>>

NotCalled == [ok |-> FALSE, rows |-> <<"not called">>]

CreateResultCsv ==
    /\ pc = "returned"
    /\ result_csv' = create_result_csv(csv_file, ret.code_to_images)
    /\ pc' = "done"
    /\ UNCHANGED <<csv_file, source, method, sku_mapping, image_files, idx, current_code,
                   image_index, code_to_images, failed_items, total_files, successful_files,
                   outputs, ret, results>>

-----------------------------------------------------------------------------
(* main(): the branch behind the process button, and a later upload.       *)

NoResults == [set |-> FALSE]

\* st.session_state.results = {...}
ResultsOf(m, r, csv) ==
    [set |-> TRUE, method |-> m, code_to_images |-> r.code_to_images,
     total_files |-> r.total_files, failures |-> r.failures,
     failed_items |-> r.failed_items,
     successful_files |-> r.total_files - r.failures,
     processed_zip |-> r.processed_zip, result_csv |-> csv]

\* a button that starts the method whatever load_sku_mapping returned
ClickProcessNoAbort ==
    /\ pc = "idle"
    /\ csv_valid(csv_file)
    /\ IF method = "folders" THEN BeginFolderWith(load_sku_mapping(csv_file))
                             ELSE BeginZipWith(load_sku_mapping(csv_file))
    /\ UNCHANGED <<csv_file, source, method, result_csv, results>>

\* the button: load the mapping, stop on an empty one, else start the method
ClickProcess ==
    /\ pc = "idle"
    /\ csv_valid(csv_file)
    /\ LET m == load_sku_mapping(csv_file)
       IN  IF DOMAIN m = {}
           THEN /\ pc' = "aborted"
                /\ UNCHANGED <<sku_mapping, image_files, idx, current_code, image_index,
                               code_to_images, failed_items, total_files, successful_files,
                               outputs, ret>>
           ELSE IF method = "folders" THEN BeginFolderWith(m) ELSE BeginZipWith(m)
    /\ UNCHANGED <<csv_file, source, method, result_csv, results>>

\* create_result_csv and the assignment of st.session_state.results
StoreResults ==
    /\ pc = "returned"
    /\ result_csv' = create_result_csv(csv_file, ret.code_to_images)
    /\ results' = ResultsOf(method, ret, create_result_csv(csv_file, ret.code_to_images))
    /\ pc' = "done"
    /\ UNCHANGED <<csv_file, source, method, sku_mapping, image_files, idx, current_code,
                   image_index, code_to_images, failed_items, total_files, successful_files,
                   outputs, ret>>

-----------------------------------------------------------------------------
(* Inputs. *)

RowChoices == {
    [codigo |-> STR_AAA11,                        sku |-> STR_SKU100],
    [codigo |-> <<" ">> \o STR_AAA11 \o <<" ">>,  sku |-> STR_SKU200 \o <<" ">>],
    [codigo |-> STR_AAA11 \o <<"X">>,             sku |-> STR_SKU200],
    [codigo |-> STR_XYZ99,                        sku |-> STR_SKU200],
    [codigo |-> << >>,                            sku |-> STR_SKU100],
    [codigo |-> STR_AAA11,                        sku |-> << >>] }

TableRows(n) == UNION {[1..m -> RowChoices] : m \in 0..n}

\* every table of at most n rows, in either encoding, well-formed or not, with or
\* without each required column
CsvFiles(n) ==
    [enc : {"utf-8", "latin1"},
     wellformed : BOOLEAN,
     header : {{COL_CODIGO, COL_SKU, COL_OTHER}, {COL_CODIGO, COL_OTHER}, {COL_SKU, COL_OTHER}},
     rows : TableRows(n)]

\* the table AAA11 -> SKU100, BBB22 -> SKU200
StdCsv ==
    [enc |-> "utf-8", wellformed |-> TRUE, header |-> {COL_CODIGO, COL_SKU, COL_OTHER},
     rows |-> <<[codigo |-> STR_AAA11, sku |-> STR_SKU100],
                [codigo |-> STR_BBB22, sku |-> STR_SKU200]>>]

\* a table whose only row has no SKU
NoSkuCsv ==
    [enc |-> "utf-8", wellformed |-> TRUE, header |-> {COL_CODIGO, COL_SKU, COL_OTHER},
     rows |-> <<[codigo |-> STR_AAA11, sku |-> << >>]>>]

\* the source AAA11_1.jpg, sub/AAA11_2.PNG, XYZ99_1.jpg
SmallSource == EntriesOf(<<KIND_A_JPG, KIND_A_PNG_SUB, KIND_X_JPG>>)

InitLocals ==
    /\ sku_mapping = EmptyMapping
    /\ image_files = << >>
    /\ idx = 0
    /\ current_code = None
    /\ image_index = 1
    /\ code_to_images = EmptyGrouping
    /\ failed_items = << >>
    /\ total_files = 0
    /\ successful_files = 0
    /\ outputs = << >>
    /\ ret = NoReturn
    /\ result_csv = NotCalled
    /\ results = NoResults

\* either many sources under the standard table, or many tables over a small source
InitInputs ==
    /\ method \in {"folders", "zip"}
    /\ \/ csv_file = StdCsv /\ source \in Sources(MaxBlocks)
       \/ csv_file \in CsvFiles(MaxRows) /\ source = SmallSource

Init ==
    /\ InitInputs
    /\ pc = "init"
    /\ InitLocals

Next ==
    \/ LoadSkuMapping
    \/ ProcessFolderBegin
    \/ ProcessZipBegin
    \/ ProcessFolderStep
    \/ ProcessZipStep
    \/ ProcessFolderReturn
    \/ ProcessZipReturn
    \/ CreateResultCsv

Spec == Init /\ [][Next]_vars

\* the user uploads another table after a run
ReUpload ==
    /\ pc \in {"done", "aborted"}
    /\ csv_file' \in {StdCsv, NoSkuCsv}
    /\ pc' = "idle"
    /\ UNCHANGED <<source, method, sku_mapping, image_files, idx, current_code, image_index,
                   code_to_images, failed_items, total_files, successful_files, outputs,
                   ret, result_csv, results>>

InitMain ==
    /\ method \in {"folders", "zip"}
    /\ csv_file \in CsvFiles(MaxRows)
    /\ source \in Sources(1)
    /\ pc = "idle"
    /\ InitLocals

NextMain ==
    \/ ClickProcess
    \/ ProcessFolderStep
    \/ ProcessZipStep
    \/ ProcessFolderReturn
    \/ ProcessZipReturn
    \/ StoreResults
    \/ ReUpload

SpecMain == InitMain /\ [][NextMain]_vars

\* archive runs over archives that hold macOS metadata folders
InitZip ==
    /\ method = "zip"
    /\ csv_file = StdCsv
    /\ source \in Archives(MaxBlocks)
    /\ pc = "init"
    /\ InitLocals

NextZip ==
    \/ LoadSkuMapping
    \/ ProcessZipBegin
    \/ ProcessZipStep
    \/ ProcessZipReturn
    \/ CreateResultCsv

SpecZip == InitZip /\ [][NextZip]_vars

-----------------------------------------------------------------------------
(* What the claims speak of, read off the state.                           *)

\* the file name, the code and the fate of the i-th image of the loop's list
NameAt(i) == Basename(image_files[i])
CodeAt(i) == Prefix(SplitExt(NameAt(i))[1], 5)
ExtAt(i) == Lower(SplitExt(NameAt(i))[2])
Mapped(i) == CodeAt(i) \in DOMAIN sku_mapping
Raises(i) == Mapped(i) /\ ReadFails(method, source, image_files[i])
Succeeds(i) == Mapped(i) /\ ~ReadFails(method, source, image_files[i])

\* the position in outputs of the output of a successful image
OutIndex(i) == Cardinality({j \in 1..i : Succeeds(j)})

\* the first image of the contiguous run the i-th image is in, and the last
RunStart(i) == CHOOSE s \in 1..i :
                  /\ \A m \in s..i : CodeAt(m) = CodeAt(i)
                  /\ s = 1 \/ CodeAt(s - 1) # CodeAt(i)
RunEnd(i) == CHOOSE e \in i..Len(image_files) :
                  /\ \A m \in i..e : CodeAt(m) = CodeAt(i)
                  /\ e = Len(image_files) \/ CodeAt(e + 1) # CodeAt(i)

\* how many images of its run up to the i-th were written
RankInRun(i) == Cardinality({j \in RunStart(i)..i : Succeeds(j)})

\* the sequence digits of an output name: between its last '_' and its last '.'
SeqDigits(out) == SubSeq(out, RFind(out, "_") + 1, RFind(out, ".") - 1)

\* n written as two zero-padded digits
TwoDigits(n) == <<DigitChars[(n \div 10) + 1], DigitChars[(n % 10) + 1]>>

\* the number of names held in a grouping
RECURSIVE SumLen(_, _)
SumLen(g, keys) ==
    IF keys = {} THEN 0
    ELSE LET k == CHOOSE k \in keys : TRUE IN Len(g[k]) + SumLen(g, keys \ {k})
GroupingSize(g) == SumLen(g, DOMAIN g)

Range(seq) == {seq[i] : i \in 1..Len(seq)}

\* f, with its values computed once
Tabulate(f) == f @@ << >>

InLoop == pc \in {"loop", "returned", "done"} /\ idx <= Len(image_files)

-----------------------------------------------------------------------------
(* C1 *)

\* C1: the returned total_files equals the number of images an output was
\* produced for (successful_files) plus the returned failure count, in folder
\* and in archive runs alike.
C1_TotalIsSuccessPlusFailures ==
    ret.set => ret.total_files = successful_files + ret.failures

-----------------------------------------------------------------------------
(* C2 *)

\* C2: every processed image whose code is not a key of the mapping is in the
\* failure list, produced no output and added nothing to the grouping; every
\* key of the grouping is a key of the mapping.
C2_UnmappedFailsWithoutOutput ==
    InLoop =>
        /\ \A i \in 1..idx : ~Mapped(i) =>
              /\ NameAt(i) \in Range(failed_items)
              /\ CodeAt(i) \notin DOMAIN code_to_images
        /\ DOMAIN code_to_images \subseteq DOMAIN sku_mapping
        /\ Len(outputs) = Cardinality({i \in 1..idx : Succeeds(i)})
        /\ GroupingSize(code_to_images) = Len(outputs)

C2_Witness ==
    /\ pc = "returned"
    /\ \E i \in 1..idx : ~Mapped(i)
    /\ \E i \in 1..idx : Succeeds(i)

-----------------------------------------------------------------------------
(* C3 *)

\* C3: a successfully processed image with mapped code c and current counter n
\* is written as mapping[c] + '_' + c + '_' + n in two zero-padded digits +
\* extension, the extension being '.jpg' unless the lower-cased original one is
\* '.jpg' or '.jpeg', which is kept; the grouping records the name the bytes
\* are written under.
C3_OutputNameFormat ==
    [][(pc = "loop" /\ idx' = idx + 1 /\ Len(outputs') = Len(outputs) + 1) =>
        LET i == idx + 1
            c == CodeAt(i)
            n == IF current_code # c THEN 1 ELSE image_index
            e == IF ExtAt(i) = EXT_JPG \/ ExtAt(i) = EXT_JPEG THEN ExtAt(i) ELSE EXT_JPG
            expected == sku_mapping[c] \o <<"_">> \o c \o <<"_">> \o TwoDigits(n) \o e
        IN  /\ c \in DOMAIN sku_mapping
            /\ outputs'[Len(outputs')] =
                  (IF method = "folders" THEN <<"o","u","t","/">> \o expected ELSE expected)
            /\ code_to_images'[c][Len(code_to_images'[c])] = expected
            /\ GroupingSize(code_to_images') = GroupingSize(code_to_images) + 1
      ]_vars

\* a PNG and an upper-case JPEG have both been written
C3_Witness ==
    /\ pc = "returned"
    /\ \E i \in 1..idx : Succeeds(i) /\ ExtAt(i) = EXT_PNG
                         /\ EndsWith(outputs[OutIndex(i)], <<"0","2">> \o EXT_JPG)
    /\ \E i \in 1..idx : Succeeds(i) /\ ExtAt(i) = EXT_JPEG
                         /\ EndsWith(outputs[OutIndex(i)], EXT_JPEG)

-----------------------------------------------------------------------------
(* C4 *)

\* C4: within a contiguous run of at most 6 images the output names are
\* pairwise distinct; within a contiguous run of any length the sequence
\* numbers of successive outputs go 1, 2, ..., 6 and then wrap back to 1.
C4_RunNamesDistinctAndCyclic ==
    InLoop =>
        LET code  == Tabulate([i \in 1..Len(image_files) |-> CodeAt(i)])
            ok    == Tabulate([i \in 1..idx |-> Succeeds(i)])
            start == Tabulate([i \in 1..idx |->
                        CHOOSE s \in 1..i : /\ \A m \in s..i : code[m] = code[i]
                                            /\ s = 1 \/ code[s - 1] # code[i]])
            end   == Tabulate([i \in 1..idx |->
                        CHOOSE e \in i..Len(image_files) :
                                            /\ \A m \in i..e : code[m] = code[i]
                                            /\ e = Len(image_files) \/ code[e + 1] # code[i]])
            out   == Tabulate([i \in 1..idx |-> IF ok[i] THEN outputs[Cardinality({j \in 1..i : ok[j]})] ELSE << >>])
            rank  == Tabulate([i \in 1..idx |-> Cardinality({j \in start[i]..i : ok[j]})])
        IN  /\ \A i, j \in 1..idx :
                  ( /\ i < j
                    /\ ok[i] /\ ok[j]
                    /\ start[i] = start[j]
                    /\ end[j] - start[i] + 1 <= 6 )
                  => out[i] # out[j]
            /\ \A i \in 1..idx : ok[i] =>
                  SeqDigits(out[i]) = TwoDigits(((rank[i] - 1) % 6) + 1)

\* a run in which a seventh image was written, under sequence number 01
C4_Witness ==
    /\ InLoop
    /\ \E i \in 1..idx : Succeeds(i) /\ RankInRun(i) = 7
                         /\ SeqDigits(outputs[OutIndex(i)]) = <<"0","1">>
    /\ \E i \in 1..idx : Raises(i) /\ \E j \in (i+1)..idx : Succeeds(j) /\ RunStart(j) <= i

-----------------------------------------------------------------------------
(* C5 *)

ExampleNames == << STR_AAA11 \o <<"_","1">> \o EXT_JPG,
                   STR_BBB22 \o <<"_","1">> \o EXT_JPG,
                   STR_AAA11 \o <<"_","2">> \o EXT_JPG >>

IsExample ==
    /\ Len(image_files) = 3
    /\ \A i \in 1..3 : NameAt(i) = ExampleNames[i]
    /\ STR_AAA11 \in DOMAIN sku_mapping
    /\ STR_BBB22 \in DOMAIN sku_mapping
    /\ \A i \in 1..3 : ~ReadFails(method, source, image_files[i])
    /\ idx = 3

\* C5: the counter is one scalar, reset to 1 on every change of code between
\* consecutive images: the first output after a change of code has sequence 01,
\* and for AAA11_1.jpg, BBB22_1.jpg, AAA11_2.jpg with both codes mapped the
\* first and third outputs have one name, held twice by the grouping of AAA11.
C5_CounterResetOnCodeChange ==
    InLoop =>
        /\ \A i \in 1..idx :
              (Succeeds(i) /\ (i = 1 \/ CodeAt(i - 1) # CodeAt(i)))
              => SeqDigits(outputs[OutIndex(i)]) = <<"0","1">>
        /\ IsExample =>
              /\ Len(outputs) = 3
              /\ outputs[1] = outputs[3]
              /\ code_to_images[STR_AAA11] = <<Basename(outputs[1]), Basename(outputs[1])>>

C5_Witness ==
    /\ IsExample
    /\ pc = "returned"
    /\ outputs[1] = outputs[3]

-----------------------------------------------------------------------------
(* C6 *)

\* the image entries of the source, as the loop would see them, in listing order
SourceImages ==
    SelectSeq([i \in 1..Len(source) |-> FullPath(method, source[i])], is_image_file)

\* for every folder of the source, its image entries in listing order
ImagesByFolder ==
    LET imgs == SourceImages
    IN  [d \in {Dirname(imgs[i]) : i \in 1..Len(imgs)} |->
            SelectSeq(imgs, LAMBDA f : Dirname(f) = d)]

\* the entries beyond the 6th image of their folder
BeyondCapOf(byFolder) ==
    UNION {{byFolder[d][k] : k \in 7..Len(byFolder[d])} : d \in DOMAIN byFolder}
BeyondCap == BeyondCapOf(ImagesByFolder)

\* C6: in both modes at most 6 image entries of a source folder are processed;
\* the entries beyond the 6th produce no output, enter no grouping and are not in
\* the failure list or the failure count.
C6_AtMostSixPerFolder ==
    InLoop =>
        LET byFolder == ImagesByFolder
            beyond == BeyondCapOf(byFolder)
        IN  /\ \A d \in DOMAIN byFolder :
                  LET taken == SelectSeq(image_files, LAMBDA f : Dirname(f) = d)
                  IN  /\ Len(taken) <= 6
                      /\ image_files # << >> =>
                            taken = SubSeq(byFolder[d], 1, Min(6, Len(byFolder[d])))
            /\ \A f \in beyond :
                  /\ f \notin Range(image_files)
                  /\ Basename(f) \notin Range(failed_items)
                  /\ Basename(f) \notin Range(ret.failed_items)
            /\ \A f \in Range(image_files) : Dirname(f) \in DOMAIN byFolder
            /\ Len(outputs) + Len(failed_items) = idx
            /\ GroupingSize(code_to_images) = Len(outputs)
            /\ ret.set => ret.failures = Len(failed_items)

C6_Witness ==
    /\ pc = "returned"
    /\ method = "zip"
    /\ idx = Len(image_files)
    /\ \E f \in BeyondCap : ~(Prefix(Basename(f), 5) \in DOMAIN sku_mapping)
    /\ \E f \in BeyondCap : Prefix(Basename(f), 5) \in DOMAIN sku_mapping

-----------------------------------------------------------------------------
(* C7 *)

\* C7: an image whose processing raises has its own file name appended once to
\* the failure list and nothing added to the grouping, and the loop goes on:
\* every image of the list is accounted for exactly once, by a grouping entry
\* or by a failure entry, and the failure list is in processing order.
C7_FailuresRecordedLoopContinues ==
    InLoop =>
        /\ failed_items = [k \in 1..Cardinality({i \in 1..idx : ~Succeeds(i)}) |->
                             NameAt(CHOOSE i \in 1..idx :
                                      /\ ~Succeeds(i)
                                      /\ Cardinality({j \in 1..i : ~Succeeds(j)}) = k)]
        /\ GroupingSize(code_to_images) = Cardinality({i \in 1..idx : Succeeds(i)})
        /\ (pc # "loop" /\ image_files # << >>) =>
              /\ idx = Len(image_files)
              /\ ret.failed_items = failed_items
              /\ GroupingSize(ret.code_to_images) + Len(ret.failed_items) = Len(image_files)

C7_Witness ==
    /\ pc = "returned"
    /\ \E i \in 1..idx : Raises(i) /\ \E j \in (i+1)..idx : Succeeds(j)
    /\ \E i \in 1..idx : Raises(i) /\ \E j \in (i+1)..idx : ~Mapped(j)

-----------------------------------------------------------------------------
(* C8 *)

\* the encodings, by position, under which the table parses
Parsing(file) == {k \in 1..Len(encodings) : read_csv(file, encodings[k]).ok}

\* the encodings under which the table parses and shows both required columns
Usable(file) ==
    {k \in Parsing(file) : {COL_CODIGO, COL_SKU} \subseteq read_csv(file, encodings[k]).columns}

Least(S) == CHOOSE k \in S : \A j \in S : k <= j

\* C8 as stated: the mapping is the one built under the first encoding that
\* parses with both required columns, and it is empty only when there is no
\* such encoding.
C8_FirstUsableEncodingOrEmpty ==
    pc # "init" =>
        IF Usable(csv_file) = {}
        THEN sku_mapping = EmptyMapping
        ELSE /\ sku_mapping = BuildMapping(read_csv(csv_file, encodings[Least(Usable(csv_file))]).rows)
             /\ sku_mapping # EmptyMapping

\* C8, amended: load_sku_mapping tries utf-8, latin1, cp1252 in that order and
\* stops at the first encoding under which the table parses: with both required
\* columns there it returns the mapping built from the rows (empty when no row
\* has both values), without them it returns the empty mapping; it returns the
\* empty mapping too when no encoding parses.
C8_FirstParsingEncodingDecides ==
    pc # "init" =>
        /\ encodings = <<"utf-8", "latin1", "cp1252">>
        /\ IF Parsing(csv_file) = {}
           THEN sku_mapping = EmptyMapping
           ELSE LET df == read_csv(csv_file, encodings[Least(Parsing(csv_file))])
                IN  IF {COL_CODIGO, COL_SKU} \subseteq df.columns
                    THEN sku_mapping = BuildMapping(df.rows)
                    ELSE sku_mapping = EmptyMapping

\* a Latin-1 table was loaded by falling back from utf-8
C8_Witness ==
    /\ pc = "loaded"
    /\ csv_file.enc = "latin1"
    /\ Least(Parsing(csv_file) \cup {3}) = 2
    /\ DOMAIN sku_mapping # {}

-----------------------------------------------------------------------------
(* C9 *)

\* a load failure: no encoding parses the table with both required columns
LoadFailure(file) == Usable(file) = {}

\* C9 as stated, its converse part: the run is aborted only for a load failure.
C9_AbortOnlyOnLoadFailure ==
    pc = "aborted" => LoadFailure(csv_file)

\* C9, amended: once the user starts processing, the run is aborted exactly
\* when load_sku_mapping returns an empty mapping (a load failure, or a table
\* in which no row has both a code and an identifier); an aborted run invokes
\* neither processing method nor create_result_csv, writes nothing and leaves
\* the stored results of the session unchanged.
C9_AbortIffEmptyMapping ==
    [][ /\ (pc = "idle" /\ pc' # "idle") =>
            /\ (pc' = "aborted") <=> (DOMAIN load_sku_mapping(csv_file) = {})
            /\ pc' = "aborted" =>
                  UNCHANGED <<results, outputs, ret, result_csv, code_to_images,
                              failed_items, image_files, idx>>
        /\ pc = "aborted" =>
            /\ pc' = "idle"
            /\ UNCHANGED <<results, outputs, ret, result_csv>>
      ]_vars

\* a run aborted in a session that holds the results of an earlier run
C9_Witness ==
    /\ pc = "aborted"
    /\ results.set
    /\ DOMAIN load_sku_mapping(csv_file) = {}

-----------------------------------------------------------------------------
(* C10 *)

\* C10: for every table load_sku_mapping produced a mapping from,
\* create_result_csv keeps every row in order and gives each the images cell:
\* the names the grouping holds under the first 5 characters of the row's
\* trimmed code, joined in processing order, or the empty string.
C10_EveryRowAnnotated ==
    (pc = "done" /\ DOMAIN sku_mapping # {}) =>
        /\ result_csv.ok
        /\ Len(result_csv.rows) = Len(csv_file.rows)
        /\ \A i \in 1..Len(csv_file.rows) :
              LET key == Prefix(Strip(csv_file.rows[i].codigo), 5)
              IN  /\ result_csv.rows[i].sku = csv_file.rows[i].sku
                  /\ result_csv.rows[i].imagens =
                        IF key \in DOMAIN ret.code_to_images
                        THEN Join(<<",", " ">>, ret.code_to_images[key])
                        ELSE << >>

-----------------------------------------------------------------------------
(* C11 *)

\* the rows of the table, by position, that have both a code and an identifier
Complete(file) ==
    {i \in 1..Len(file.rows) : file.rows[i].codigo # << >> /\ file.rows[i].sku # << >>}

\* the table was read with both required columns, so the mapping comes from its rows
BuiltFromRows(file) ==
    /\ Parsing(file) # {}
    /\ {COL_CODIGO, COL_SKU} \subseteq read_csv(file, encodings[Least(Parsing(file))]).columns

\* C11: the mapping load_sku_mapping returns has as keys exactly the trimmed
\* codes of the rows that have both a code and an identifier, and maps each
\* key to the trimmed identifier of the last row in table order whose trimmed
\* code equals it; codes differing only in surrounding whitespace are one key.
C11_MappingIsLastWriteWins ==
    (pc # "init" /\ BuiltFromRows(csv_file)) =>
        LET rows == csv_file.rows
            complete == Complete(csv_file)
        IN  /\ DOMAIN sku_mapping = {Strip(rows[i].codigo) : i \in complete}
            /\ \A i \in complete :
                  (\A j \in complete : j > i => Strip(rows[j].codigo) # Strip(rows[i].codigo))
                      => sku_mapping[Strip(rows[i].codigo)] = Strip(rows[i].sku)

\* two complete rows whose codes differ only by surrounding whitespace and
\* whose identifiers differ: the later row's identifier is the one kept
C11_Witness ==
    /\ pc = "loaded"
    /\ BuiltFromRows(csv_file)
    /\ \E i, j \in Complete(csv_file) :
          /\ i < j
          /\ csv_file.rows[i].codigo # csv_file.rows[j].codigo
          /\ Strip(csv_file.rows[i].codigo) = Strip(csv_file.rows[j].codigo)
          /\ Strip(csv_file.rows[i].sku) # Strip(csv_file.rows[j].sku)
          /\ csv_file.rows[j].sku # Strip(csv_file.rows[j].sku)
          /\ sku_mapping[Strip(csv_file.rows[j].codigo)] = Strip(csv_file.rows[j].sku)

-----------------------------------------------------------------------------
(* C12 *)

\* sub occurs somewhere in s
Contains(s, sub) ==
    \E i \in 1..(Len(s) - Len(sub) + 1) : SubSeq(s, i, i + Len(sub) - 1) = sub

\* the members of the archive that are images and satisfy Keep
ImageEntries(Keep(_)) ==
    {i \in 1..Len(source) : is_image_file(source[i].path) /\ Keep(source[i].path)}

\* the archive could not be opened: nothing is listed and nothing counted
Unreadable == pc # "loop" /\ ret = EarlyReturn /\ image_files = << >>

\* C12 as stated: in archive mode no entry whose path contains '__MACOSX/',
\* at the start of the path or under any folder prefix, is counted,
\* processed or given an output.
C12_NoMacosxEntryAnywhere ==
    (method = "zip" /\ pc \in {"loop", "returned", "done"}) =>
        /\ \A i \in 1..Len(image_files) : ~Contains(image_files[i], MACOSX)
        /\ total_files <= Cardinality(ImageEntries(LAMBDA f : ~Contains(f, MACOSX)))

\* C12, amended: in archive mode no entry whose path starts with '__MACOSX/'
\* is counted, processed or given an output: total_files counts exactly the
\* image entries that do not start with it, the loop visits only such entries
\* and every output comes from an entry it visited.  An entry with '__MACOSX/'
\* under a folder prefix is an image entry like any other.
C12_TopLevelMacosxExcluded ==
    (method = "zip" /\ pc \in {"loop", "returned", "done"}) =>
        /\ \A i \in 1..Len(image_files) :
              /\ ~StartsWith(image_files[i], MACOSX)
              /\ \E e \in ImageEntries(LAMBDA f : ~StartsWith(f, MACOSX)) :
                    source[e].path = image_files[i]
        /\ Unreadable \/ total_files = Cardinality(ImageEntries(LAMBDA f : ~StartsWith(f, MACOSX)))
        /\ Len(outputs) = Cardinality({i \in 1..idx : Succeeds(i)})

\* an archive with a metadata image at the top and another under a folder was
\* processed: the first was passed over, the second was written like any image
C12_Witness ==
    /\ method = "zip"
    /\ pc = "returned"
    /\ \E e \in 1..Len(source) : StartsWith(source[e].path, MACOSX) /\ is_image_file(source[e].path)
    /\ \E i \in 1..idx :
          /\ Contains(image_files[i], MACOSX)
          /\ Succeeds(i)
    /\ total_files < Cardinality(ImageEntries(LAMBDA f : TRUE))
    /\ total_files > Cardinality(ImageEntries(LAMBDA f : ~Contains(f, MACOSX)))

-----------------------------------------------------------------------------
(* C13 *)

\* C13: the engine and the annotator agree on the row an image belongs to:
\* every output filename listed in a row's images cell of the annotated table
\* begins with that row's own identifier, '_' and the first 5 characters of
\* that row's code, for any table (codes longer than 5 characters, rows
\* sharing their first 5 characters, duplicate codes with different
\* identifiers).
C13_CellNamesCarryRowSku ==
    (pc = "done" /\ result_csv.ok) =>
        \A i \in 1..Len(result_csv.rows) :
            LET row == result_csv.rows[i]
                key == Prefix(row.codigo, CodeLen)
            IN  row.imagens # << >> =>
                    /\ key \in DOMAIN ret.code_to_images
                    /\ row.imagens = Join(<<",", " ">>, ret.code_to_images[key])
                    /\ \A name \in Range(ret.code_to_images[key]) :
                          StartsWith(name, Strip(AsStr(row.sku)) \o <<"_">> \o key)

-----------------------------------------------------------------------------
(* C14 *)

\* C14: at every point of either processing loop the sequence counter is in
\* 1..6 and it has advanced once for each image written in the current run
\* and for nothing else (an unmapped or a failing image leaves it as it is),
\* so the k-th image written in a contiguous run of a mapped code carries
\* sequence number ((k-1) mod 6)+1; the grouping holds as many names as
\* images have been written so far.
C14_CounterCountsWrittenImages ==
    /\ image_index \in 1..MaxIndex
    /\ InLoop =>
          LET code  == Tabulate([i \in 1..Len(image_files) |-> CodeAt(i)])
              ok    == Tabulate([i \in 1..idx |-> Succeeds(i)])
              start == Tabulate([i \in 1..idx |->
                          CHOOSE s \in 1..i : /\ \A m \in s..i : code[m] = code[i]
                                              /\ s = 1 \/ code[s - 1] # code[i]])
              written(i) == Cardinality({j \in start[i]..i : ok[j]})
              names == {<<k, n>> \in (DOMAIN code_to_images) \X (1..idx) : n <= Len(code_to_images[k])}
          IN  /\ image_index = IF idx = 0 THEN 1 ELSE (written(idx) % MaxIndex) + 1
              /\ \A i \in 1..idx :
                    ok[i] => outputs[Cardinality({j \in 1..i : ok[j]})]
                                = WrittenAs(method, NewFilename(sku_mapping[code[i]], code[i],
                                                                ((written(i) - 1) % MaxIndex) + 1,
                                                                SavedExt(ExtAt(i))))
              /\ Cardinality(names) = Cardinality({i \in 1..idx : ok[i]})
              /\ successful_files = Cardinality(names)
              /\ \A k \in DOMAIN code_to_images : Len(code_to_images[k]) <= idx

\* one run of a mapped code in which an image failed between written ones and
\* a seventh image has just been written: the counter is back at 2
C14_Witness ==
    /\ pc = "loop"
    /\ idx >= 8
    /\ RunStart(idx) = 1
    /\ \E i \in 2..(idx - 1) : Raises(i)
    /\ Succeeds(idx)
    /\ RankInRun(idx) = MaxIndex + 1
    /\ image_index = 2
    /\ GroupingSize(code_to_images) = MaxIndex + 1

====
